---- MODULE Spec2Model ----
(***************************************************************************)
(* Model of the two scripts of analyses/gpu-cellassign-testing:            *)
(*   scvi.py             (Pipeline A: SCVI expression model)               *)
(*   small-cellassign.py (Pipeline B: CellAssign cell-type assignment)     *)
(* Each script is a straight line of statements; one action models one     *)
(* statement.  A statement that raises ends the run: nothing in either     *)
(* script catches an exception.                                            *)
(*                                                                         *)
(* Both scripts lie in one directory, and one of them is named scvi.py.    *)
(* When python puts the script's directory first on sys.path (its          *)
(* default), `import scvi` finds that file instead of the library and the  *)
(* run ends inside the import; the library is found only when the script's *)
(* directory is kept off sys.path (python -P or -I, PYTHONSAFEPATH) or the *)
(* scripts are kept apart.  Which of the two holds is an input (shadowed). *)
(*                                                                         *)
(* Gene identifiers are the naturals 1..MaxGenes (k stands for "Gk").      *)
(* Counts are naturals; a quotient of floats is modelled as an exact       *)
(* fraction in lowest terms, 0/0 standing for NaN (floating-point rounding *)
(* is not modelled).  Python objects live in two heaps, objs (AnnData      *)
(* objects) and bufs (matrices), so that a copy and an alias differ.       *)
(***************************************************************************)
EXTENDS Integers, Sequences, FiniteSets, TLC

VARIABLES
    script,        \* "A" (scvi.py) or "B" (small-cellassign.py)
    shadowed,      \* `import scvi` finds the file scvi.py, not the library
    pc,            \* the statement to execute next, "done" or "failed"
    error,         \* the exception that ended the run, "" while none
    failedAt,      \* the statement that raised, "" while none
    refFile,       \* the file small-brain.tsv (input, never written)
    dataFile,      \* the .h5ad file (input, never written)
    seed,          \* scvi.settings.seed, 0 while the script has not set it
    ref_matrix,    \* the DataFrame bound to ref_matrix
    adata,         \* the object id bound to adata, 0 while unbound
    shared_genes,  \* the list bound to shared_genes
    subset_adata,  \* the object id bound to subset_adata, 0 while unbound
    lib_size,      \* the vector bound to lib_size
    objs,          \* heap of AnnData objects, object id = index
    bufs,          \* heap of matrices, buffer id = index
    registry,      \* what setup_anndata was given
    model,         \* what the model constructor was given, and whether trained
    predictions,   \* TRUE once model.predict() has returned
    calls,         \* the scvi library calls made so far, in order
    mutations      \* in-place writes made to the working/raw matrix (Pipeline A)

vars == <<script, shadowed, pc, error, failedAt, refFile, dataFile, seed, ref_matrix,
          adata, shared_genes, subset_adata, lib_size, objs, bufs, registry,
          model, predictions, calls, mutations>>

----------------------------------------------------------------------------
(* Bounds of the model *)

MaxCells == 2
MaxGenes == 2
MaxRef == 2
MaxCount == 2
MaxMutations == 1

(* Program constant: the seed both scripts set *)
SeedValue == 2024

GeneIds == 1..MaxGenes

----------------------------------------------------------------------------
(* Sequences, sets and maps *)

\* set(xs) of Python: the elements of a list, duplicates dropped
SetOf(xs) == {xs[i] : i \in DOMAIN xs}

\* every list holding each element of S once: the orders list(S) may produce
ListsOf(S) == {xs \in [1..Cardinality(S) -> S] : SetOf(xs) = S}

\* lists of length at most n over S
SeqsUpTo(S, n) == UNION {[1..k -> S] : k \in 0..n}

\* lists without repetition of length at most n over S
UniqueSeqsUpTo(S, n) == {xs \in SeqsUpTo(S, n) : Cardinality(SetOf(xs)) = Len(xs)}

\* the position of x in xs (x occurs once)
IndexOf(xs, x) == CHOOSE i \in DOMAIN xs : xs[i] = x

EmptyMap == [k \in {} |-> 0]

RECURSIVE SumSeq(_)
SumSeq(xs) == IF xs = <<>> THEN 0 ELSE xs[1] + SumSeq(Tail(xs))

RECURSIVE Gcd(_, _)
Gcd(a, b) == IF b = 0 THEN a ELSE Gcd(b, a % b)

\* a float quotient num/den of nonnegative values, in lowest terms:
\* 0/0 is NaN, x/0 (x > 0) is inf
Frac(num, den) ==
    IF den = 0
    THEN [num |-> IF num = 0 THEN 0 ELSE 1, den |-> 0]
    ELSE LET g == Gcd(num, den) IN [num |-> num \div g, den |-> den \div g]

NaN == [num |-> 0, den |-> 0]

----------------------------------------------------------------------------
(* numpy / scipy operations the script applies to a matrix or a vector.   *)
(* A matrix is a list of rows (one per cell), a row a list of counts (one  *)
(* per gene).                                                              *)

\* X.sum(1): the total of every row
RowSums(X) == [i \in 1..Len(X) |-> SumSeq(X[i])]

\* np.mean(v): sum / length, NaN for an empty vector
Mean(v) == Frac(SumSeq(v), Len(v))

\* v / m for a vector v and a scalar m = m.num/m.den, element by element
DivideBy(v, m) == [i \in 1..Len(v) |-> Frac(v[i] * m.den, m.num)]

\* Faulty variant of Columns (a test of the properties):
\* the first len(names) columns, whatever their names
ColumnsByPosition(X, var_names, names) ==
    [i \in 1..Len(X) |-> [k \in 1..Len(names) |-> X[i][k]]]

\* X[:, names] of a matrix whose columns are named var_names
Columns(X, var_names, names) ==
    [i \in 1..Len(X) |-> [k \in 1..Len(names) |-> X[i][IndexOf(var_names, names[k])]]]

----------------------------------------------------------------------------
(* The input files *)

Formats == {"csr", "csc", "dense"}

NoData == [state |-> "missing", var_names |-> <<>>, fmt |-> "csr", X |-> <<>>,
           hasRaw |-> FALSE, raw |-> <<>>]

DataFile(vn, fmt, X, hasRaw, raw) ==
    [state |-> "ok", var_names |-> vn, fmt |-> fmt, X |-> X, hasRaw |-> hasRaw, raw |-> raw]

NoRef == [state |-> "missing", rows |-> <<>>]

RefFile(rows) == [state |-> "ok", rows |-> rows]

\* a file that is missing, or present and not of the expected format
BadFiles(none) == {none, [none EXCEPT !.state = "malformed"]}

\* a matrix in which the entry of cell i and gene g is different for every (i, g)
Fingerprint(n, vn) == [i \in 1..n |-> [j \in 1..Len(vn) |-> (i - 1) * MaxGenes + vn[j]]]

FirstGenes(g) == [j \in 1..g |-> j]

\* datasets that vary the genes and their order, the storage format and the
\* number of cells (var_names holds every gene identifier once)
GeneLayoutFiles ==
    {DataFile(vn, fmt, Fingerprint(n, vn), FALSE, <<>>) :
        vn \in UniqueSeqsUpTo(GeneIds, MaxGenes), fmt \in Formats, n \in 0..MaxCells}

\* datasets of one or two genes that vary the counts
CountMatrices(g) == UNION {[1..n -> [1..g -> 0..MaxCount]] : n \in 0..MaxCells}

CountTableFiles ==
    UNION {{DataFile(FirstGenes(g), "csc", X, FALSE, <<>>) : X \in CountMatrices(g)} :
              g \in 1..2}

\* reference tables: any list of gene identifiers as index, repeats allowed
RefFiles == {RefFile(rows) : rows \in SeqsUpTo(GeneIds, MaxRef)} \cup BadFiles(NoRef)

CountRefs == {RefFile(<<1>>), RefFile(<<2, 1>>)}

\* merged datasets read by scvi.py, with or without a raw matrix
MergedFiles ==
    {DataFile(FirstGenes(g), "csr", Fingerprint(n, FirstGenes(g)), hasRaw,
              IF hasRaw THEN Fingerprint(n, FirstGenes(g)) ELSE <<>>) :
        g \in 1..MaxGenes, n \in 0..MaxCells, hasRaw \in BOOLEAN}

\* the end-to-end scenario: reference genes G1, G2; dataset genes G1, G2, G3;
\* per-cell totals 10, 20, 30
ScenarioRef == RefFile(<<1, 2>>)

ScenarioData ==
    DataFile(<<1, 2, 3>>, "csc", <<<<4, 5, 1>>, <<8, 10, 2>>, <<12, 15, 3>>>>, FALSE, <<>>)

----------------------------------------------------------------------------
(* Initial state: the interpreter is about to run the imports *)

NoRegistry == [called |-> FALSE, ok |-> FALSE, obj |-> 0, key |-> "", key_present |-> FALSE]

NoModel == [called |-> FALSE, built |-> FALSE, adata |-> 0, ref |-> <<>>, trained |-> FALSE]

Init ==
    /\ \/ /\ script = "A"
          /\ refFile = NoRef
          /\ dataFile \in MergedFiles \cup BadFiles(NoData)
       \/ /\ script = "B"
          /\ \/ refFile \in RefFiles /\ dataFile \in GeneLayoutFiles \cup BadFiles(NoData)
             \/ refFile \in CountRefs /\ dataFile \in CountTableFiles
             \/ refFile = ScenarioRef /\ dataFile = ScenarioData
    /\ shadowed \in BOOLEAN
    /\ pc = "import"
    /\ error = ""
    /\ failedAt = ""
    /\ seed = 0
    /\ ref_matrix = [loaded |-> FALSE, index |-> <<>>]
    /\ adata = 0
    /\ shared_genes = <<>>
    /\ subset_adata = 0
    /\ lib_size = <<>>
    /\ objs = <<>>
    /\ bufs = <<>>
    /\ registry = NoRegistry
    /\ model = NoModel
    /\ predictions = FALSE
    /\ calls = <<>>
    /\ mutations = 0

----------------------------------------------------------------------------
(* What every statement shares *)

\* the statement `step` raises `exc`: nothing catches it, the run ends
Raise(step, exc) ==
    /\ pc' = "failed"
    /\ error' = exc
    /\ failedAt' = step

Goto(next) ==
    /\ pc' = next
    /\ UNCHANGED <<error, failedAt>>

\* Faulty variant of External (a test of the properties):
\* the exception is caught and the script goes on
ExternalSwallowed(step, ok, next) == Goto(next)

\* a call into the external library either returns or raises
External(step, ok, next) ==
    IF ok THEN Goto(next) ELSE Raise(step, "ExternalLibraryError")

\* anndata.read_h5ad(path): the heaps after the file's matrices and AnnData
\* object are allocated
ReadBufs(file) ==
    IF file.hasRaw
    THEN bufs \o <<[fmt |-> file.fmt, data |-> file.X], [fmt |-> file.fmt, data |-> file.raw]>>
    ELSE Append(bufs, [fmt |-> file.fmt, data |-> file.X])

ReadObj(file) ==
    [var_names |-> file.var_names,
     X |-> Len(bufs) + 1,
     raw |-> IF file.hasRaw THEN Len(bufs) + 2 ELSE 0,
     layers |-> EmptyMap,
     obs |-> EmptyMap]

\* adata = anndata.read_h5ad(path)
ReadH5ad(step, next) ==
    /\ pc = step
    /\ CASE dataFile.state = "missing" ->
              /\ Raise(step, "FileNotFoundError")
              /\ UNCHANGED <<adata, objs, bufs>>
         [] dataFile.state = "malformed" ->
              /\ Raise(step, "OSError")
              /\ UNCHANGED <<adata, objs, bufs>>
         [] OTHER ->
              /\ bufs' = ReadBufs(dataFile)
              /\ objs' = Append(objs, ReadObj(dataFile))
              /\ adata' = Len(objs) + 1
              /\ Goto(next)
    /\ UNCHANGED <<script, shadowed, refFile, dataFile, seed, ref_matrix,
                   shared_genes, subset_adata, lib_size, registry, model,
                   predictions, calls, mutations>>

\* import anndata / import scvi (scvi.py), import anndata ... import scvi
\* (small-cellassign.py).  When `import scvi` finds the file scvi.py, python
\* runs that file as the module scvi: its own `import scvi` gets the module
\* still being initialised, and its statement scvi.settings.seed = 2024 raises
\* AttributeError (the module has no attribute settings), which ends the run.
Import ==
    /\ pc = "import"
    /\ IF shadowed THEN Raise("import", "AttributeError") ELSE Goto("seed")
    /\ UNCHANGED <<script, shadowed, refFile, dataFile, seed, ref_matrix,
                   adata, shared_genes, subset_adata, lib_size, objs, bufs,
                   registry, model, predictions, calls, mutations>>

\* scvi.settings.seed = 2024
SetSeed(next) ==
    /\ pc = "seed"
    /\ seed' = SeedValue
    /\ calls' = Append(calls, "seed")
    /\ Goto(next)
    /\ UNCHANGED <<script, shadowed, refFile, dataFile, ref_matrix, adata,
                   shared_genes, subset_adata, lib_size, objs, bufs, registry,
                   model, predictions, mutations>>

----------------------------------------------------------------------------
(* Pipeline B: small-cellassign.py *)

B_Import == script = "B" /\ Import

B_SetSeed == script = "B" /\ SetSeed("read_ref")

\* ref_matrix = pd.read_csv("small-brain.tsv", sep="\t", index_col="ensembl_gene_id")
B_ReadRef ==
    /\ script = "B"
    /\ pc = "read_ref"
    /\ CASE refFile.state = "missing" ->
              /\ Raise("read_ref", "FileNotFoundError")
              /\ UNCHANGED ref_matrix
         [] refFile.state = "malformed" ->
              /\ Raise("read_ref", "ValueError")
              /\ UNCHANGED ref_matrix
         [] OTHER ->
              /\ ref_matrix' = [loaded |-> TRUE, index |-> refFile.rows]
              /\ Goto("read_adata")
    /\ UNCHANGED <<script, shadowed, refFile, dataFile, seed, adata,
                   shared_genes, subset_adata, lib_size, objs, bufs, registry,
                   model, predictions, calls, mutations>>

B_ReadAdata == script = "B" /\ ReadH5ad("read_adata", "shared_genes")

\* Faulty variant of SharedGeneSet (a test of the properties):
\* the two lists compared position by position
SharedGeneSetPositional(index, var_names) ==
    {index[i] : i \in {k \in DOMAIN index \cap DOMAIN var_names : index[k] = var_names[k]}}

\* set(ref_matrix.index) & set(adata.var_names)
SharedGeneSet(index, var_names) == SetOf(index) \cap SetOf(var_names)

\* shared_genes = list(set(ref_matrix.index) & set(adata.var_names))
\* The order in which list() walks a set of strings is not fixed.
B_SharedGenes ==
    /\ script = "B"
    /\ pc = "shared_genes"
    /\ \E order \in ListsOf(SharedGeneSet(ref_matrix.index, objs[adata].var_names)) :
          shared_genes' = order
    /\ Goto("subset")
    /\ UNCHANGED <<script, shadowed, refFile, dataFile, seed, ref_matrix,
                   adata, subset_adata, lib_size, objs, bufs, registry, model,
                   predictions, calls, mutations>>

\* adata[:, names].copy(): a new matrix holding the named columns, and a new
\* AnnData object around it
SubsetBuf(o, names) ==
    [fmt |-> bufs[o.X].fmt, data |-> Columns(bufs[o.X].data, o.var_names, names)]

SubsetObj(o, names) ==
    [var_names |-> names, X |-> Len(bufs) + 1, raw |-> 0, layers |-> EmptyMap, obs |-> o.obs]

\* subset_adata = adata[:, shared_genes].copy()
\* Indexing with an empty list of names raises IndexError in some anndata
\* releases and gives a dataset of no genes in others.
B_Subset ==
    /\ script = "B"
    /\ pc = "subset"
    /\ \/ /\ shared_genes = <<>>
          /\ Raise("subset", "IndexError")
          /\ UNCHANGED <<subset_adata, objs, bufs>>
       \/ /\ bufs' = Append(bufs, SubsetBuf(objs[adata], shared_genes))
          /\ objs' = Append(objs, SubsetObj(objs[adata], shared_genes))
          /\ subset_adata' = Len(objs) + 1
          /\ Goto("tocsr")
    /\ UNCHANGED <<script, shadowed, refFile, dataFile, seed, ref_matrix,
                   adata, shared_genes, lib_size, registry, model,
                   predictions, calls, mutations>>

\* subset_adata.X = subset_adata.X.tocsr()
\* A numpy array has no tocsr; a csr matrix returns itself; any other sparse
\* matrix returns a new csr matrix with the same entries.
B_ToCsr ==
    /\ script = "B"
    /\ pc = "tocsr"
    /\ LET b == objs[subset_adata].X IN
       CASE bufs[b].fmt = "dense" ->
              /\ Raise("tocsr", "AttributeError")
              /\ UNCHANGED <<objs, bufs>>
         [] bufs[b].fmt = "csr" ->
              /\ Goto("lib_size")
              /\ UNCHANGED <<objs, bufs>>
         [] OTHER ->
              /\ bufs' = Append(bufs, [fmt |-> "csr", data |-> bufs[b].data])
              /\ objs' = [objs EXCEPT ![subset_adata].X = Len(bufs) + 1]
              /\ Goto("lib_size")
    /\ UNCHANGED <<script, shadowed, refFile, dataFile, seed, ref_matrix,
                   adata, shared_genes, subset_adata, lib_size, registry,
                   model, predictions, calls, mutations>>

\* Faulty variant of LibSizeSource (a test of the properties):
\* the totals taken from the subset
LibSizeFromSubset == bufs[objs[subset_adata].X].data

\* the matrix whose rows lib_size sums
LibSizeSource == bufs[objs[adata].X].data

\* lib_size = adata.X.sum(1)
B_LibSize ==
    /\ script = "B"
    /\ pc = "lib_size"
    /\ lib_size' = RowSums(LibSizeSource)
    /\ Goto("size_factor")
    /\ UNCHANGED <<script, shadowed, refFile, dataFile, seed, ref_matrix,
                   adata, shared_genes, subset_adata, objs, bufs, registry,
                   model, predictions, calls, mutations>>

\* lib_size / np.mean(lib_size)
SizeFactors(v) == DivideBy(v, Mean(v))

\* subset_adata.obs["size_factor"] = lib_size / np.mean(lib_size)
B_SizeFactor ==
    /\ script = "B"
    /\ pc = "size_factor"
    /\ objs' = [objs EXCEPT ![subset_adata].obs =
                   ("size_factor" :> SizeFactors(lib_size)) @@ @]
    /\ Goto("setup")
    /\ UNCHANGED <<script, shadowed, refFile, dataFile, seed, ref_matrix,
                   adata, shared_genes, subset_adata, lib_size, bufs,
                   registry, model, predictions, calls, mutations>>

\* Faulty variant of B_Setup (a test of the properties):
\* the registration made before the size factor is attached
B_SetupEarly ==
    /\ script = "B"
    /\ pc = "size_factor"
    /\ \E ok \in BOOLEAN :
          /\ registry' = [called |-> TRUE, ok |-> ok, obj |-> subset_adata,
                          key |-> "size_factor",
                          key_present |-> "size_factor" \in DOMAIN objs[subset_adata].obs]
          /\ External("setup", ok, "construct")
    /\ calls' = Append(calls, "setup_anndata")
    /\ UNCHANGED <<script, shadowed, refFile, dataFile, seed, ref_matrix,
                   adata, shared_genes, subset_adata, lib_size, objs, bufs,
                   model, predictions, mutations>>

\* scvi.external.CellAssign.setup_anndata(subset_adata, size_factor_key="size_factor")
B_Setup ==
    /\ script = "B"
    /\ pc = "setup"
    /\ \E ok \in BOOLEAN :
          /\ registry' = [called |-> TRUE, ok |-> ok, obj |-> subset_adata,
                          key |-> "size_factor",
                          key_present |-> "size_factor" \in DOMAIN objs[subset_adata].obs]
          /\ External("setup", ok, "construct")
    /\ calls' = Append(calls, "setup_anndata")
    /\ UNCHANGED <<script, shadowed, refFile, dataFile, seed, ref_matrix,
                   adata, shared_genes, subset_adata, lib_size, objs, bufs,
                   model, predictions, mutations>>

\* Faulty variant of ConstructorRef (a test of the properties):
\* the reference cut down to the shared genes
ConstructorRefShared ==
    SelectSeq(ref_matrix.index, LAMBDA g : g \in SetOf(shared_genes))

\* the reference table handed to the CellAssign constructor
ConstructorRef == ref_matrix.index

\* model = CellAssign(subset_adata, ref_matrix)
B_Construct ==
    /\ script = "B"
    /\ pc = "construct"
    /\ \E ok \in BOOLEAN :
          /\ model' = [called |-> TRUE, built |-> ok, adata |-> subset_adata,
                       ref |-> ConstructorRef, trained |-> FALSE]
          /\ External("construct", ok, "train")
    /\ calls' = Append(calls, "construct")
    /\ UNCHANGED <<script, shadowed, refFile, dataFile, seed, ref_matrix,
                   adata, shared_genes, subset_adata, lib_size, objs, bufs,
                   registry, predictions, mutations>>

\* model.train(...)
Train(next) ==
    /\ pc = "train"
    /\ \E ok \in BOOLEAN :
          /\ model' = [model EXCEPT !.trained = ok]
          /\ External("train", ok, next)
    /\ calls' = Append(calls, "train")
    /\ UNCHANGED <<script, shadowed, refFile, dataFile, seed, ref_matrix,
                   adata, shared_genes, subset_adata, lib_size, objs, bufs,
                   registry, predictions, mutations>>

\* model.train(accelerator="gpu")
B_Train == script = "B" /\ Train("predict")

\* predictions = model.predict()
B_Predict ==
    /\ script = "B"
    /\ pc = "predict"
    /\ \E ok \in BOOLEAN :
          /\ predictions' = ok
          /\ External("predict", ok, "done")
    /\ calls' = Append(calls, "predict")
    /\ UNCHANGED <<script, shadowed, refFile, dataFile, seed, ref_matrix,
                   adata, shared_genes, subset_adata, lib_size, objs, bufs,
                   registry, model, mutations>>

----------------------------------------------------------------------------
(* Pipeline A: scvi.py *)

A_Import == script = "A" /\ Import

A_SetSeed == script = "A" /\ SetSeed("read_adata")

A_ReadAdata == script = "A" /\ ReadH5ad("read_adata", "counts_layer")

\* Faulty variant of CountsCopyId (a test of the properties):
\* the layer bound to the raw matrix itself, no copy
CountsAliasId == objs[adata].raw

\* adata.raw.X.copy(): the heap after the copy is allocated, and the copy's id
CountsCopyBufs == Append(bufs, bufs[objs[adata].raw])

CountsCopyId == Len(bufs) + 1

\* adata.layers["counts"] = adata.raw.X.copy()
\* adata.raw is None when the file holds no raw matrix.
A_CountsLayer ==
    /\ script = "A"
    /\ pc = "counts_layer"
    /\ IF objs[adata].raw = 0
       THEN /\ Raise("counts_layer", "AttributeError")
            /\ UNCHANGED <<objs, bufs>>
       ELSE /\ bufs' = CountsCopyBufs
            /\ objs' = [objs EXCEPT ![adata].layers = ("counts" :> CountsCopyId) @@ @]
            /\ Goto("setup")
    /\ UNCHANGED <<script, shadowed, refFile, dataFile, seed, ref_matrix,
                   adata, shared_genes, subset_adata, lib_size, registry,
                   model, predictions, calls, mutations>>

\* scvi.model.SCVI.setup_anndata(adata, layer="counts", batch_key="sample_id")
A_Setup ==
    /\ script = "A"
    /\ pc = "setup"
    /\ \E ok \in BOOLEAN :
          /\ registry' = [called |-> TRUE, ok |-> ok, obj |-> adata, key |-> "counts",
                          key_present |-> "counts" \in DOMAIN objs[adata].layers]
          /\ External("setup", ok, "construct")
    /\ calls' = Append(calls, "setup_anndata")
    /\ UNCHANGED <<script, shadowed, refFile, dataFile, seed, ref_matrix,
                   adata, shared_genes, subset_adata, lib_size, objs, bufs,
                   model, predictions, mutations>>

\* model = scvi.model.SCVI(adata, n_layers=2, n_latent=30, gene_likelihood="nb")
A_Construct ==
    /\ script = "A"
    /\ pc = "construct"
    /\ \E ok \in BOOLEAN :
          /\ model' = [called |-> TRUE, built |-> ok, adata |-> adata, ref |-> <<>>,
                       trained |-> FALSE]
          /\ External("construct", ok, "train")
    /\ calls' = Append(calls, "construct")
    /\ UNCHANGED <<script, shadowed, refFile, dataFile, seed, ref_matrix,
                   adata, shared_genes, subset_adata, lib_size, objs, bufs,
                   registry, predictions, mutations>>

\* model.train()
A_Train == script = "A" /\ Train("done")

\* An in-place write adata.X[i, j] = v or adata.raw.X[i, j] = v made, once
\* the counts layer exists, by whatever holds the dataset.
A_MutateWorking ==
    /\ script = "A"
    /\ pc \in {"setup", "construct", "train", "done"}
    /\ mutations < MaxMutations
    /\ \E b \in {objs[adata].X, objs[adata].raw} :
          \E i \in DOMAIN bufs[b].data :
             \E j \in DOMAIN bufs[b].data[i] :
                \E v \in 0..MaxCount :
                   bufs' = [bufs EXCEPT ![b].data[i][j] = v]
    /\ mutations' = mutations + 1
    /\ UNCHANGED <<script, shadowed, pc, error, failedAt, refFile, dataFile,
                   seed, ref_matrix, adata, shared_genes, subset_adata,
                   lib_size, objs, registry, model, predictions, calls>>

----------------------------------------------------------------------------

Next ==
    \/ A_Import
    \/ A_SetSeed
    \/ A_ReadAdata
    \/ A_CountsLayer
    \/ A_Setup
    \/ A_Construct
    \/ A_Train
    \/ A_MutateWorking
    \/ B_Import
    \/ B_SetSeed
    \/ B_ReadRef
    \/ B_ReadAdata
    \/ B_SharedGenes
    \/ B_Subset
    \/ B_ToCsr
    \/ B_LibSize
    \/ B_SizeFactor
    \/ B_Setup
    \/ B_Construct
    \/ B_Train
    \/ B_Predict

Spec == Init /\ [][Next]_vars

----------------------------------------------------------------------------
(* Where a run is *)

\* the statements of scvi.py, in file order
OrderA == <<"import", "seed", "read_adata", "counts_layer", "setup", "construct", "train", "done">>

\* the statements of small-cellassign.py, in file order
OrderB == <<"import", "seed", "read_ref", "read_adata", "shared_genes", "subset", "tocsr",
            "lib_size", "size_factor", "setup", "construct", "train", "predict", "done">>

Idx(step) == IndexOf(IF script = "A" THEN OrderA ELSE OrderB, step)

\* the statement has run, and either returned or raised
Attempted(step) ==
    IF pc = "failed" THEN Idx(failedAt) >= Idx(step) ELSE Idx(pc) > Idx(step)

\* the statement has run and returned
Completed(step) ==
    IF pc = "failed" THEN Idx(failedAt) > Idx(step) ELSE Idx(pc) > Idx(step)

\* the library calls each script makes, in file order
ExpectedCalls ==
    IF script = "A"
    THEN <<"seed", "setup_anndata", "construct", "train">>
    ELSE <<"seed", "setup_anndata", "construct", "train", "predict">>

ModelingCalls == {"setup_anndata", "construct", "train", "predict"}

NoModelingCall ==
    /\ SetOf(calls) \cap ModelingCalls = {}
    /\ ~registry.called
    /\ ~model.called
    /\ ~predictions

IsPrefix(xs, ys) == Len(xs) <= Len(ys) /\ \A i \in DOMAIN xs : xs[i] = ys[i]

\* every order of the elements of a list
Reorderings(xs) ==
    {[i \in DOMAIN xs |-> xs[f[i]]] : f \in ListsOf(DOMAIN xs)}

----------------------------------------------------------------------------
(* Properties *)

\* the reference genes and the dataset genes, as the files give them
FileGenes == SetOf(refFile.rows) \cup SetOf(dataFile.var_names)

\* the size factors attached to the subset
AttachedSizeFactors == objs[subset_adata].obs["size_factor"]

\* total_count(i) of the dataset as the file gives it, over all its genes
FileTotal(i) == SumSeq(dataFile.X[i])

FileTotals == [i \in 1..Len(dataFile.X) |-> FileTotal(i)]

\* q is the quotient a / (s / n) of floats: NaN when s = 0 (then a = 0 too)
IsQuotient(q, a, s, n) ==
    IF s = 0 THEN q = NaN ELSE q.den > 0 /\ q.num * s = a * n * q.den

(* C1: in Pipeline B, once shared_genes is computed it holds exactly the   *)
(* genes that are both in the reference index and in the dataset's         *)
(* var_names, and the same set results from every reordering of the        *)
(* reference rows and of the dataset genes.                                *)
C1_SharedGenesIsIntersection ==
    (script = "B" /\ Completed("shared_genes")) =>
        /\ \A g \in FileGenes \cup SetOf(shared_genes) :
              g \in SetOf(shared_genes) <=>
                 /\ \E i \in DOMAIN refFile.rows : refFile.rows[i] = g
                 /\ \E j \in DOMAIN dataFile.var_names : dataFile.var_names[j] = g
        /\ \A p \in Reorderings(refFile.rows) :
              \A q \in Reorderings(dataFile.var_names) :
                 SharedGeneSet(p, q) = SetOf(shared_genes)

\* two genes are shared, the reference lists them in another order than the
\* dataset, and list() gave them in another order than the dataset's
C1_Witness ==
    /\ script = "B"
    /\ pc = "subset"
    /\ Len(shared_genes) = 2
    /\ refFile.rows # dataFile.var_names
    /\ shared_genes # dataFile.var_names

(* C2 as amended: in Pipeline B the size factor attached to cell i is the  *)
(* quotient of total_count(i) by the mean of total_count over all cells    *)
(* (NaN when that mean is zero), total_count taken over all genes of the   *)
(* dataset as loaded; the size factors are computed after the subset is    *)
(* made, from the original dataset, which the subsetting left unchanged.   *)
C2_SizeFactorFromFullData ==
    script = "B" =>
        /\ Completed("size_factor") =>
              /\ Len(AttachedSizeFactors) = Len(dataFile.X)
              /\ \A i \in DOMAIN AttachedSizeFactors :
                    IsQuotient(AttachedSizeFactors[i], FileTotal(i),
                               SumSeq(FileTotals), Len(dataFile.X))
        /\ Completed("lib_size") =>
              /\ Completed("subset")
              /\ lib_size = FileTotals
              /\ bufs[objs[adata].X].data = dataFile.X
        /\ ~Completed("subset") => lib_size = <<>>

\* size factors are attached, the subset dropped a gene that carries counts,
\* and the cells differ in depth
C2_Witness ==
    /\ script = "B"
    /\ Completed("size_factor")
    /\ Len(shared_genes) < Len(dataFile.var_names)
    /\ RowSums(bufs[objs[subset_adata].X].data) # FileTotals
    /\ \E i \in DOMAIN AttachedSizeFactors : AttachedSizeFactors[i].den > 1

(* C2 as claimed: the size factors are right, and they are computed        *)
(* strictly before the gene-subsetting step.                               *)
C2_ComputedBeforeSubsetting ==
    script = "B" =>
        /\ Completed("size_factor") =>
              \A i \in DOMAIN AttachedSizeFactors :
                 IsQuotient(AttachedSizeFactors[i], FileTotal(i),
                            SumSeq(FileTotals), Len(dataFile.X))
        /\ Completed("subset") => Completed("lib_size") /\ Completed("size_factor")

\* both files are read and no gene is in both
EmptyIntersection ==
    /\ script = "B"
    /\ Completed("shared_genes")
    /\ SetOf(refFile.rows) \cap SetOf(dataFile.var_names) = {}

(* C3: in Pipeline B, if no gene is shared the run fails and never reaches *)
(* registration, model construction, train or predict on a subset of no    *)
(* genes.                                                                  *)
C3_EmptyIntersectionFails ==
    EmptyIntersection =>
        /\ NoModelingCall
        /\ ~Attempted("setup")

(* C4: whenever the dataset file, or in Pipeline B the reference file,     *)
(* does not exist, the run does not finish and makes no modeling call, and *)
(* a run that has ended has failed with FileNotFoundError.                 *)
C4_MissingInputIsInputNotFound ==
    (dataFile.state = "missing" \/ (script = "B" /\ refFile.state = "missing")) =>
        /\ NoModelingCall
        /\ pc # "done"
        /\ pc = "failed" => error = "FileNotFoundError"

\* the values of the stored "counts" layer
CountsLayer == bufs[objs[adata].layers["counts"]].data

HasCountsLayer == adata # 0 /\ "counts" \in DOMAIN objs[adata].layers

(* C5: in Pipeline A, once the "counts" layer is added it holds the raw    *)
(* matrix as it was when copied (as the file gives it), whatever is        *)
(* written afterwards into the working matrix or the raw matrix.           *)
C5_CountsLayerIndependent ==
    (script = "A" /\ HasCountsLayer) =>
        /\ CountsLayer = dataFile.raw
        /\ objs[adata].layers["counts"] \notin {objs[adata].X, objs[adata].raw}

\* the raw matrix has been written to after the layer was added
C5_Witness ==
    /\ script = "A"
    /\ HasCountsLayer
    /\ mutations > 0
    /\ bufs[objs[adata].raw].data # dataFile.raw
    /\ CountsLayer = dataFile.raw

\* the mean per-cell total of the dataset as loaded is zero or undefined
ZeroMeanTotal ==
    /\ script = "B"
    /\ Completed("read_adata")
    /\ SumSeq(FileTotals) = 0

(* C6: in Pipeline B, if the mean per-cell total count of the dataset is   *)
(* zero the run fails instead of attaching size factors obtained by        *)
(* dividing by zero and going on to registration and training.             *)
C6_ZeroMeanFails ==
    ZeroMeanTotal =>
        /\ ~Completed("size_factor")
        /\ NoModelingCall
        /\ pc # "done"

\* the subset's matrix
SubsetX == bufs[objs[subset_adata].X].data

(* C7: in Pipeline B the subset has the cells of the original dataset,     *)
(* exactly the shared genes as columns, every retained entry equal to the  *)
(* original entry of that cell and gene, and one size factor per original  *)
(* cell; for reference genes {G1, G2}, dataset genes {G1, G2, G3} and      *)
(* totals [10, 20, 30] the shared genes are {G1, G2}, the mean total is    *)
(* 20, the size factors are [0.5, 1.0, 1.5] and only columns G1 and G2 are *)
(* kept for the three cells.                                               *)
C7_SubsetKeepsCellsAndSharedGenes ==
    script = "B" =>
        /\ Completed("subset") =>
              /\ Len(SubsetX) = Len(dataFile.X)
              /\ SetOf(objs[subset_adata].var_names) =
                    SetOf(refFile.rows) \cap SetOf(dataFile.var_names)
              /\ Len(objs[subset_adata].var_names) =
                    Cardinality(SetOf(objs[subset_adata].var_names))
              /\ \A i \in DOMAIN SubsetX :
                    /\ Len(SubsetX[i]) = Len(objs[subset_adata].var_names)
                    /\ \A k \in DOMAIN SubsetX[i] :
                          \E j \in DOMAIN dataFile.var_names :
                             /\ dataFile.var_names[j] = objs[subset_adata].var_names[k]
                             /\ SubsetX[i][k] = dataFile.X[i][j]
        /\ Completed("size_factor") =>
              Len(AttachedSizeFactors) = Len(dataFile.X)
        /\ (refFile = ScenarioRef /\ dataFile = ScenarioData /\ Completed("size_factor")) =>
              /\ SetOf(shared_genes) = {1, 2}
              /\ lib_size = <<10, 20, 30>>
              /\ Mean(lib_size) = [num |-> 20, den |-> 1]
              /\ AttachedSizeFactors = <<[num |-> 1, den |-> 2], [num |-> 1, den |-> 1],
                                         [num |-> 3, den |-> 2]>>
              /\ SetOf(objs[subset_adata].var_names) = {1, 2}
              /\ Len(SubsetX) = 3
              /\ \A i \in 1..3 : SetOf(SubsetX[i]) = {4 * i, 5 * i}

\* the scenario has run up to the attachment of the size factors
C7_Witness ==
    /\ script = "B"
    /\ refFile = ScenarioRef
    /\ dataFile = ScenarioData
    /\ Completed("size_factor")
    /\ Len(objs[subset_adata].var_names) = 2

\* everything a statement of either script can change
program == <<pc, error, failedAt, seed, ref_matrix, adata, shared_genes,
             subset_adata, lib_size, objs, bufs, registry, model, predictions,
             calls>>

\* a run that failed has stopped at the statement that raised: what every
\* later statement would have set is still unset
StoppedWhereItFailed ==
    pc = "failed" =>
        /\ error # ""
        /\ IsPrefix(calls, ExpectedCalls)
        /\ ~Completed("import") => seed = 0 /\ calls = <<>>
        /\ ~Completed("read_adata") => adata = 0
        /\ script = "B" =>
              /\ ~Completed("read_ref") => ~ref_matrix.loaded
              /\ ~Completed("shared_genes") => shared_genes = <<>>
              /\ ~Completed("subset") => subset_adata = 0
              /\ ~Completed("lib_size") => lib_size = <<>>
              /\ (~Completed("size_factor") /\ subset_adata # 0) =>
                    "size_factor" \notin DOMAIN objs[subset_adata].obs
        /\ script = "A" =>
              /\ ~Completed("counts_layer") => ~HasCountsLayer
              /\ ~ref_matrix.loaded
              /\ subset_adata = 0
        /\ ~Attempted("setup") => ~registry.called
        /\ ~Attempted("construct") => ~model.called
        /\ ~Completed("train") => ~model.trained
        /\ ~predictions

\* a statement that raised ended the run: the run is failed exactly when an
\* exception is recorded, and a library call that raised is the last one made
FailureEndsRun ==
    /\ pc = "failed" <=> error # ""
    /\ pc = "failed" <=> failedAt # ""
    /\ (registry.called /\ ~registry.ok) => pc = "failed" /\ failedAt = "setup"
    /\ (model.called /\ ~model.built) => pc = "failed" /\ failedAt = "construct"
    /\ ("train" \in SetOf(calls) /\ ~model.trained) => pc = "failed" /\ failedAt = "train"
    /\ ("predict" \in SetOf(calls) /\ ~predictions) => pc = "failed" /\ failedAt = "predict"
    /\ pc = "done" => calls = ExpectedCalls

(* C8: each pipeline is all-or-nothing: a statement that raises ends the   *)
(* run at that statement, no later statement is executed, the statement is *)
(* not retried, and the exception stays recorded (it is not caught).       *)
C8_AllOrNothing ==
    /\ [](StoppedWhereItFailed /\ FailureEndsRun)
    /\ [][pc = "failed" => UNCHANGED program]_vars

\* Pipeline B whose train raised: the model is built and untrained, and
\* predict was not called
C8_Witness ==
    /\ script = "B"
    /\ pc = "failed"
    /\ failedAt = "train"
    /\ error = "ExternalLibraryError"
    /\ model.built
    /\ ~model.trained
    /\ calls = <<"seed", "setup_anndata", "construct", "train">>

(* C9: the library calls happen in file order, each at most once: the seed *)
(* is 2024 before anything else is called, setup_anndata precedes the      *)
(* constructor, the constructor precedes train, predict follows a train    *)
(* that returned, and setup_anndata is called only once the size factor is *)
(* attached to the subset (Pipeline B) or the "counts" layer exists        *)
(* (Pipeline A).                                                           *)
C9_CallOrder ==
    /\ IsPrefix(calls, ExpectedCalls)
    /\ (calls # <<>> \/ ref_matrix.loaded \/ adata # 0) => seed = 2024
    /\ registry.called <=> "setup_anndata" \in SetOf(calls)
    /\ model.called <=> "construct" \in SetOf(calls)
    /\ model.called => registry.ok
    /\ "train" \in SetOf(calls) => model.built
    /\ "predict" \in SetOf(calls) => script = "B" /\ model.trained
    /\ registry.called =>
          /\ registry.key_present
          /\ registry.obj = (IF script = "B" THEN subset_adata ELSE adata)
          /\ registry.key = (IF script = "B" THEN "size_factor" ELSE "counts")

\* Pipeline B has run to the end
C9_Witness ==
    /\ script = "B"
    /\ pc = "done"
    /\ predictions
    /\ calls = <<"seed", "setup_anndata", "construct", "train", "predict">>

(* C10: in Pipeline B the reference table is never changed after loading   *)
(* and the constructor receives it as loaded, all genes in file order; and *)
(* the original dataset keeps its genes, its matrix and its per-cell       *)
(* metadata while the subset is built and given its size factors.          *)
C10_OnlyTheSubsetChanges ==
    script = "B" =>
        /\ ref_matrix.loaded => ref_matrix.index = refFile.rows
        /\ model.called => model.ref = refFile.rows /\ model.adata = subset_adata
        /\ adata # 0 =>
              /\ objs[adata].var_names = dataFile.var_names
              /\ bufs[objs[adata].X] = [fmt |-> dataFile.fmt, data |-> dataFile.X]
              /\ objs[adata].obs = EmptyMap
        /\ subset_adata # 0 =>
              /\ subset_adata # adata
              /\ objs[subset_adata].X # objs[adata].X

\* the constructor was given a reference with a gene the dataset lacks, after
\* the subset was converted to csr and given its size factors
C10_Witness ==
    /\ script = "B"
    /\ model.called
    /\ SetOf(model.ref) \ SetOf(dataFile.var_names) # {}
    /\ shared_genes # <<>>
    /\ bufs[objs[subset_adata].X].fmt = "csr"
    /\ bufs[objs[adata].X].fmt = "csc"
    /\ "size_factor" \in DOMAIN objs[subset_adata].obs

====
